---------------------------- MODULE Spec2Model ----------------------------
(***************************************************************************)
(* TheMarketIndex (SnapConnect): the ephemeral-content and friendship      *)
(* lifecycle, modelled from the client services (tipService, userService), *)
(* the send screen (app/modal.tsx) and the Cloud Functions                 *)
(* (functions/src/index.ts).                                               *)
(*                                                                         *)
(* Strings that the code sorts, concatenates, encodes or parses (user ids, *)
(* friendship document ids, storage paths, download URLs) are sequences of *)
(* tokens, so that sort(), join(), encodeURIComponent() and split() are    *)
(* computed and not assumed.  Time is counted in hours.                    *)
(***************************************************************************)
EXTENDS Integers, Sequences, FiniteSets, TLC

VARIABLES
    users,          \* Firestore 'users': uid -> profile document
    usernames,      \* Firestore 'usernames': username -> reservation
    auth,           \* Firebase Authentication: uid -> email of the account
    signingUp,      \* signUp calls between account creation and transaction
    cleanup,        \* deleted accounts: uid -> state of the onUserDelete job
    deployed,       \* which build of the functions is deployed
    friendRequests, \* friends screen: uid -> request ids the listener gave
    signals,        \* Firestore 'signals', 'snaps', 'stories': the documents
    friendships,    \* Firestore 'friendships': document id -> document
    tips,           \* Firestore 'tips': document id -> document
    blobs,          \* Cloud Storage bucket: the paths that hold an object
    deleteEvents,   \* tips onDelete events not yet handled by onTipDelete
    handled,        \* onTipDelete invocations that have returned
    nextTipId,      \* next auto-generated document id of addDoc
    uploads,        \* media uploads made so far (millisecond stamps differ)
    now,            \* server time, in hours
    ticker,         \* send screen: the ticker state of the form
    typed,          \* send screen: the text last typed into the ticker field
    friendEvents,   \* friendships trigger events: event id -> event
    notifications,  \* push messages handed to Expo, in order
    groups,         \* Firestore 'groups': document id -> document
    nextGroupId,    \* next auto-generated id of a groups document
    groupJobs,      \* cleanGroups tasks: uid -> what the task has read
    globalAuthUnsubscribe, \* useAuth.ts: the listener the module variable
                    \* unsubscribes, or NoListener for null
    authListeners,  \* Firebase Auth: the auth-state listeners subscribed
    mountedHooks,   \* components that called useAuth: the listener whose
                    \* unsubscribe each one's effect returned
    listenerCount,  \* onAuthStateChanged calls made so far
    last            \* outcome of the most recent call

accountVars == <<usernames, auth, signingUp, cleanup, deployed>>

(* state of the screens and collections that the account, friendship and   *)
(* content operations below leave alone                                    *)
groupVars == <<groups, nextGroupId, groupJobs>>

hookVars == <<globalAuthUnsubscribe, authListeners, mountedHooks, listenerCount>>

extraVars == <<ticker, typed, friendEvents, notifications, groupVars, hookVars>>

vars == <<users, accountVars, friendRequests, signals, friendships, tips, blobs,
          deleteEvents, handled, nextTipId, uploads, now, extraVars, last>>

-----------------------------------------------------------------------------
(* Program constants *)

TTL == 24

(* modal.tsx: formattedTicker.slice(0, 5) *)
MaxTickerLength == 5

(* notificationService.ts createGroup: memberIds.length < 2 *)
MinGroupMembers == 2

(* Bounds of the model *)

MaxTime == 24
MaxTips == 2
MaxUploads == 1
MaxTextLen == 1
MaxDeliveries == 2
MaxEvents == 2
MaxGroups == 2
MaxListeners == 6
MaxRetryTips == 3
MaxRetryUploads == 2


-----------------------------------------------------------------------------
(* User ids.  "ab" has "a" as a proper prefix. *)

Uids == { <<"a">>, <<"b">>, <<"a", "b">> }

CharCode(ch) ==
    CASE ch = "_" -> 95
      [] ch = "a" -> 97
      [] ch = "b" -> 98

(* String comparison by code units, as Array.prototype.sort() compares. *)
RECURSIVE StrLess(_, _)
StrLess(s, t) ==
    IF t = <<>> THEN FALSE
    ELSE IF s = <<>> THEN TRUE
    ELSE IF CharCode(Head(s)) # CharCode(Head(t))
         THEN CharCode(Head(s)) < CharCode(Head(t))
         ELSE StrLess(Tail(s), Tail(t))

(* [uid1, uid2].sort() *)
SortPair(uid1, uid2) ==
    IF StrLess(uid2, uid1) THEN <<uid2, uid1>> ELSE <<uid1, uid2>>

(* parts.join(sep) for a two-element array of strings *)
Join(parts, sep) == parts[1] \o <<sep>> \o parts[2]

UnsortedFriendshipId(uid1, uid2) == Join(<<uid1, uid2>>, "_")

createFriendshipId(uid1, uid2) == Join(SortPair(uid1, uid2), "_")

-----------------------------------------------------------------------------
(* Firestore single-document writes *)

EmptyCollection == [x \in {} |-> x]

(* useAuth.ts: globalAuthUnsubscribe = null; listeners are numbered from 1 *)
NoListener == 0

SetDoc(coll, id, data) ==
    [x \in DOMAIN coll \cup {id} |-> IF x = id THEN data ELSE coll[x]]

DeleteDoc(coll, id) == [x \in DOMAIN coll \ {id} |-> coll[x]]

-----------------------------------------------------------------------------
(* The clock.  serverTimestamp() reads now, the server's time; new Date()  *)
(* on a device reads the device's own clock, which may be ahead of it.     *)
(* The model looks at the clock once per TTL period.                       *)

ClockSkews == {0, 1}

ClientClocks == { now + s : s \in ClockSkews }

Tick ==
    /\ now + TTL <= MaxTime
    /\ now' = now + TTL
    /\ last' = [op |-> "tick"]
    /\ UNCHANGED <<extraVars, accountVars, signals, friendRequests, users, friendships, tips, blobs, deleteEvents, handled,
                   nextTipId, uploads>>

-----------------------------------------------------------------------------
(* userService: friend requests *)

(* setDoc on the pair's document: whatever was stored there is replaced. *)
FriendRequestWrite(fromUserId, toUserId) ==
    SetDoc(friendships, createFriendshipId(fromUserId, toUserId),
           [ members     |-> SortPair(fromUserId, toUserId),
             requestedBy |-> fromUserId,
             status      |-> "pending",
             createdAt   |-> now ])

(* Firestore hands a change of a friendships document to the functions    *)
(* registered on "friendships/{friendshipId}": onCreate for a document     *)
(* that did not exist, onUpdate for one whose data changed.  A deletion    *)
(* has no function registered.  Only the src/index.ts build has them.      *)
FriendshipChanges(before, after) ==
    { [ kind |-> "create", friendshipId |-> id, before |-> [status |-> "none"],
        after |-> after[id], deliveries |-> 0 ] :
        id \in DOMAIN after \ DOMAIN before }
    \cup
    { [ kind |-> "update", friendshipId |-> id, before |-> before[id],
        after |-> after[id], deliveries |-> 0 ] :
        id \in { x \in DOMAIN after \cap DOMAIN before : before[x] # after[x] } }

EmitFriendshipEvents(after) ==
    LET changes == FriendshipChanges(friendships, after)
        eventId == Cardinality(DOMAIN friendEvents) + 1
    IN  friendEvents' =
          IF deployed = "src/index.ts" /\ changes # {}
          THEN SetDoc(friendEvents, eventId, CHOOSE c \in changes : TRUE)
          ELSE friendEvents

(* The screen offers Add on its search results; what it knows of existing  *)
(* relationships comes from listeners whose state starts empty, so a call  *)
(* can arrive whatever the pair's record is.  prior and priorBy note what  *)
(* the call found.                                                         *)
sendFriendRequest(fromUserId, toUserId) ==
    LET friendshipId == createFriendshipId(fromUserId, toUserId)
        found        == friendshipId \in DOMAIN friendships
    IN
    /\ fromUserId \in DOMAIN users
    /\ IF fromUserId = toUserId
       THEN /\ last' = [ op |-> "sendFriendRequest", from |-> fromUserId,
                         to |-> toUserId, status |-> "error",
                         prior |-> "none", priorBy |-> <<>> ]
            /\ UNCHANGED <<friendships, friendEvents>>
       ELSE /\ friendships' = FriendRequestWrite(fromUserId, toUserId)
            /\ EmitFriendshipEvents(FriendRequestWrite(fromUserId, toUserId))
            /\ last' = [ op |-> "sendFriendRequest", from |-> fromUserId,
                         to |-> toUserId, status |-> "ok",
                         prior |-> IF found
                                   THEN friendships[friendshipId].status
                                   ELSE "none",
                         priorBy |-> IF found
                                     THEN friendships[friendshipId].requestedBy
                                     ELSE <<>> ]
    /\ UNCHANGED <<hookVars, groupVars, ticker, typed, notifications, accountVars, signals,
                   friendRequests, users, tips, blobs, deleteEvents, handled,
                   nextTipId, uploads, now>>

(* The mutation of a listener that also hands over the user's own requests. *)
RequestsIncludingOwn(userId) ==
    { id \in DOMAIN friendships :
        /\ \E i \in 1..2 : friendships[id].members[i] = userId
        /\ friendships[id].status = "pending" }

(* The incoming requests the listener hands to userId's screen. *)
subscribeToFriendRequests(userId) ==
    { id \in DOMAIN friendships :
        /\ \E i \in 1..2 : friendships[id].members[i] = userId
        /\ friendships[id].status = "pending"
        /\ friendships[id].requestedBy # userId }

(* onSnapshot delivers the query's result to the friends screen, which    *)
(* keeps it in its friendRequests state until the next delivery.           *)
setFriendRequests(userId) ==
    /\ userId \in DOMAIN users
    /\ friendRequests[userId] # subscribeToFriendRequests(userId)
    /\ friendRequests' =
         [friendRequests EXCEPT ![userId] = subscribeToFriendRequests(userId)]
    /\ last' = [ op |-> "setFriendRequests", userId |-> userId ]
    /\ UNCHANGED <<extraVars, accountVars, signals, users, friendships, tips, blobs, deleteEvents,
                   handled, nextTipId, uploads, now>>

(* updateDoc(friendshipRef, { status: 'accepted' }): rejects when the      *)
(* document does not exist and writes nothing then.                        *)
UpdateStatus(requestId) ==
    IF requestId \in DOMAIN friendships
    THEN [friendships EXCEPT ![requestId].status = "accepted"]
    ELSE friendships

(* handleAcceptRequest: the user taps Accept on a request the screen       *)
(* shows; the request object is the one the listener last delivered.       *)
acceptFriendRequest(userId, requestId) ==
    LET found == requestId \in DOMAIN friendships
    IN
    /\ userId \in DOMAIN users
    /\ requestId \in friendRequests[userId]
    /\ friendships' = UpdateStatus(requestId)
    /\ EmitFriendshipEvents(UpdateStatus(requestId))
    /\ last' = [ op |-> "acceptFriendRequest", by |-> userId,
                 id |-> requestId,
                 status |-> IF found THEN "ok" ELSE "error",
                 prior |-> IF found THEN friendships[requestId].status
                           ELSE "none",
                 priorBy |-> IF found THEN friendships[requestId].requestedBy
                             ELSE <<>> ]
    /\ UNCHANGED <<hookVars, groupVars, ticker, typed, notifications, accountVars, signals,
                   friendRequests, users, tips, blobs,
                   deleteEvents, handled, nextTipId, uploads, now>>

(* handleDeclineRequest: deleteDoc resolves whether or not the document    *)
(* is still there.                                                         *)
declineFriendRequest(userId, requestId) ==
    /\ userId \in DOMAIN users
    /\ requestId \in friendRequests[userId]
    /\ friendships' = DeleteDoc(friendships, requestId)
    /\ last' = [ op |-> "declineFriendRequest", by |-> userId,
                 id |-> requestId, status |-> "ok" ]
    /\ UNCHANGED <<extraVars, accountVars, signals, friendRequests, users, tips, blobs,
                   deleteEvents, handled, nextTipId, uploads, now>>

-----------------------------------------------------------------------------
(* Push notifications for friend requests *)

(* registerForPushNotifications: updateDoc(userRef, { expoPushToken }),    *)
(* which rejects when the users document does not exist.                   *)
HasPushToken(uid) ==
    /\ uid \in DOMAIN users
    /\ "expoPushToken" \in DOMAIN users[uid]

registerForPushNotifications(userId) ==
    /\ userId \in DOMAIN users
    /\ ~HasPushToken(userId)
    /\ users' = [users EXCEPT ![userId] =
                   [f \in DOMAIN users[userId] \cup {"expoPushToken"} |->
                      IF f = "expoPushToken" THEN <<"ExponentPushToken", userId>>
                      ELSE users[userId][f]]]
    /\ last' = [ op |-> "registerForPushNotifications", userId |-> userId ]
    /\ UNCHANGED <<extraVars, accountVars, signals, friendRequests,
                   friendships, tips, blobs, deleteEvents, handled, nextTipId,
                   uploads, now>>

(* members.find(memberId => memberId !== requestedBy) *)
OtherMember(data) ==
    IF data.members[1] # data.requestedBy THEN data.members[1]
    ELSE data.members[2]

(* An invocation of a function for an event: Firestore delivers an event   *)
(* at least once, so an event already handled may be handed over again.    *)
Delivered(eventId) ==
    [friendEvents EXCEPT ![eventId].deliveries = @ + 1]

SendingOutcomes == {"sent", "threw"}

(* expo.sendPushNotificationsAsync([message]) *)
sendPushNotificationsAsync(message, outcome) ==
    IF outcome = "sent"
    THEN Append(notifications, message)
    ELSE notifications

(* onFriendRequestCreate: the push message to the recipient of a request *)
onFriendRequestCreate(eventId, outcome) ==
    LET event       == friendEvents[eventId]
        data        == event.after
        recipientId == OtherMember(data)
        message     == [ to |-> recipientId, type |-> "friend_request",
                         friendshipId |-> event.friendshipId,
                         eventId |-> eventId ]
    IN
    /\ deployed = "src/index.ts"
    /\ eventId \in DOMAIN friendEvents
    /\ event.kind = "create"
    /\ event.deliveries < MaxDeliveries
    /\ friendEvents' = Delivered(eventId)
    /\ IF HasPushToken(recipientId)
       THEN /\ notifications' =
                 sendPushNotificationsAsync(message, outcome)
            /\ last' = [ op |-> "onFriendRequestCreate", eventId |-> eventId,
                         log |-> IF outcome = "sent" THEN "info: sent"
                                 ELSE "error: sending" ]
       ELSE /\ UNCHANGED notifications
            /\ last' = [ op |-> "onFriendRequestCreate", eventId |-> eventId,
                         log |-> "info: no push token" ]
    /\ UNCHANGED <<hookVars, groupVars, ticker, typed, users, accountVars, signals, friendRequests,
                   friendships, tips, blobs, deleteEvents, handled, nextTipId,
                   uploads, now>>

(* onFriendRequestAccept: the push message to the requester, sent when the *)
(* update took the status from 'pending' to 'accepted'                     *)
onFriendRequestAccept(eventId, outcome) ==
    LET event       == friendEvents[eventId]
        requestedBy == event.after.requestedBy
        message     == [ to |-> requestedBy, type |-> "friend_accepted",
                         friendshipId |-> event.friendshipId,
                         eventId |-> eventId ]
    IN
    /\ deployed = "src/index.ts"
    /\ eventId \in DOMAIN friendEvents
    /\ event.kind = "update"
    /\ event.deliveries < MaxDeliveries
    /\ friendEvents' = Delivered(eventId)
    /\ IF event.before.status = "pending" /\ event.after.status = "accepted"
       THEN IF HasPushToken(requestedBy)
            THEN /\ notifications' =
                      sendPushNotificationsAsync(message, outcome)
                 /\ last' = [ op |-> "onFriendRequestAccept",
                              eventId |-> eventId,
                              log |-> IF outcome = "sent" THEN "info: sent"
                                      ELSE "error: sending" ]
            ELSE /\ UNCHANGED notifications
                 /\ last' = [ op |-> "onFriendRequestAccept",
                              eventId |-> eventId,
                              log |-> "info: no push token" ]
       ELSE /\ UNCHANGED notifications
            /\ last' = [ op |-> "onFriendRequestAccept", eventId |-> eventId,
                         log |-> "none" ]
    /\ UNCHANGED <<hookVars, groupVars, ticker, typed, users, accountVars, signals, friendRequests,
                   friendships, tips, blobs, deleteEvents, handled, nextTipId,
                   uploads, now>>

-----------------------------------------------------------------------------
(* getPendingRequestStatus(target).isIncoming over the screen's state *)
isIncoming(userId, targetUserId) ==
    createFriendshipId(userId, targetUserId) \in friendRequests[userId]

(* The Add button of a search result.  It is disabled while the screen    *)
(* shows a request from that user; its other two checks rest on the       *)
(* friends listener's state and on sentRequests, both empty when the      *)
(* screen mounts, so they do not keep a call from arriving.               *)
handleAddFriend(userId, recipient) ==
    /\ ~isIncoming(userId, recipient)
    /\ sendFriendRequest(userId, recipient)

-----------------------------------------------------------------------------
(* userService: the friends list *)

RECURSIVE SortUids(_)
SortUids(S) ==
    IF S = {} THEN <<>>
    ELSE LET m == CHOOSE x \in S : \A y \in S \ {x} : StrLess(x, y)
         IN  <<m>> \o SortUids(S \ {m})

Range(seq) == { seq[i] : i \in DOMAIN seq }

(* The friend profiles the listener hands to userId's screen: the other    *)
(* member of every accepted friendship, kept when a profile document with  *)
(* that id exists (the 'in' query on users), in document-id order.         *)
subscribeToFriends(userId) ==
    LET accepted  == { id \in DOMAIN friendships :
                         /\ \E i \in 1..2 : friendships[id].members[i] = userId
                         /\ friendships[id].status = "accepted" }
        friendIds == { uid \in Uids :
                         /\ uid # userId
                         /\ \E id \in accepted :
                              \E i \in 1..2 : friendships[id].members[i] = uid }
    IN  SortUids(friendIds \cap DOMAIN users)

-----------------------------------------------------------------------------
(* Media binding: storage paths and download URLs *)

MediaTypes == {"photo", "video"}

(* what the camera hands to the send screen in this model *)
CapturedTypes == {"photo"}

SendingModes == {"friends", "signal"}

Extension(type) == IF type = "photo" THEN "jpg" ELSE "mp4"

(* `tips/${userId}/${timestamp}_${type}.${extension}` *)
TipFilePath(userId, timestamp, type) ==
    <<"tips", "/">> \o userId
        \o <<"/", ToString(timestamp), "_", type, ".", Extension(type)>>

MapTokens(str, from, to) ==
    [i \in DOMAIN str |-> IF str[i] = from THEN to ELSE str[i]]

encodeURIComponent(str) == MapTokens(str, "/", "%2F")

decodeURIComponent(str) == MapTokens(str, "%2F", "/")

UrlBase == <<"https://firebasestorage.googleapis.com/v0/b/bucket">>

getDownloadURL(path) ==
    UrlBase \o <<"/o/">> \o encodeURIComponent(path)
            \o <<"?", "alt=media&token=t">>

(* str.split(sep): the pieces of str between occurrences of sep *)
RECURSIVE Split(_, _)
Split(str, sep) ==
    IF \A i \in DOMAIN str : str[i] # sep THEN <<str>>
    ELSE LET k == CHOOSE i \in DOMAIN str :
                    /\ str[i] = sep
                    /\ \A j \in 1..(i - 1) : str[j] # sep
         IN  <<SubSeq(str, 1, k - 1)>>
                \o Split(SubSeq(str, k + 1, Len(str)), sep)

(* onTipDelete's parse of the download URL; <<>> when it cannot parse *)
ParseFilePath(mediaUrl) ==
    LET urlParts == Split(mediaUrl, "/o/")
    IN  IF Len(urlParts) < 2 THEN <<>>
        ELSE decodeURIComponent(Split(urlParts[2], "?")[1])

Resolves(mediaUrl) == ParseFilePath(mediaUrl) \in blobs

-----------------------------------------------------------------------------
(* tipService *)

(* expiryDate.setHours(expiryDate.getHours() + 24) on a device whose clock *)
(* reads `clock`: the same local time on the next day; dst is the hour the *)
(* device's UTC offset gains in between (0 on all but two days a year).    *)
SetHoursPlus24(clock, dst) == clock + TTL - dst

DstShifts == {0}

TipDoc(senderId, recipientId, mediaUrl, isSignal, clock, dst) ==
    [ senderId    |-> senderId,
      recipientId |-> recipientId,
      mediaUrl    |-> mediaUrl,
      ticker      |-> ticker,
      viewed      |-> FALSE,
      isSignal    |-> isSignal,
      createdAt   |-> now,
      expiresAt   |-> SetHoursPlus24(clock, dst) ]

createTip(senderId, recipientId, mediaUrl, clock, dst) ==
    TipDoc(senderId, recipientId, mediaUrl, FALSE, clock, dst)

(* addDoc for each document of docs, under fresh consecutive ids *)
AddDocs(coll, firstId, docs) ==
    [x \in DOMAIN coll \cup { firstId + i - 1 : i \in DOMAIN docs } |->
        IF x \in DOMAIN coll THEN coll[x] ELSE docs[x - firstId + 1]]

SignalDocsSkippingFirst(senderId, friendIds, mediaUrl, clock, dst) ==
    [i \in 1..(Len(friendIds) - 1) |->
        TipDoc(senderId, friendIds[i + 1], mediaUrl, TRUE, clock, dst)]

(* createSignalTip: one document per friend id *)
SignalDocs(senderId, friendIds, mediaUrl, clock, dst) ==
    [i \in DOMAIN friendIds |->
        TipDoc(senderId, friendIds[i], mediaUrl, TRUE, clock, dst)]

FilterWithoutExpiry(id, userId, clock) ==
    /\ tips[id].recipientId = userId
    /\ tips[id].viewed = FALSE

(* the where() clauses of getTipsForUser's query *)
TipsQueryFilter(id, userId, clock) ==
    /\ tips[id].recipientId = userId
    /\ tips[id].viewed = FALSE
    /\ tips[id].expiresAt > clock

(* orderBy('createdAt', 'desc'), ties by document id *)
RECURSIVE OrderByCreatedAtDesc(_)
OrderByCreatedAtDesc(ids) ==
    IF ids = {} THEN <<>>
    ELSE LET m == CHOOSE x \in ids : \A y \in ids \ {x} :
                     \/ tips[x].createdAt > tips[y].createdAt
                     \/ /\ tips[x].createdAt = tips[y].createdAt
                        /\ x > y
         IN  <<m>> \o OrderByCreatedAtDesc(ids \ {m})

getTipsForUser(userId, clock) ==
    OrderByCreatedAtDesc(
        { id \in DOMAIN tips : TipsQueryFilter(id, userId, clock) })

GetTipsForUser(userId) ==
    /\ userId \in DOMAIN users
    /\ \E clock \in ClientClocks :
         last' = [ op |-> "getTipsForUser", userId |-> userId,
                   clock |-> clock,
                   result |-> getTipsForUser(userId, clock) ]
    /\ UNCHANGED <<extraVars, accountVars, signals, friendRequests, users, friendships, tips, blobs, deleteEvents, handled,
                   nextTipId, uploads, now>>

ToggleViewed(tipId) ==
    IF tipId \in DOMAIN tips
    THEN [tips EXCEPT ![tipId].viewed = ~tips[tipId].viewed]
    ELSE tips

(* updateDoc(tipRef, { viewed: true }) on an existing document *)
UpdateViewed(tipId) ==
    IF tipId \in DOMAIN tips
    THEN [tips EXCEPT ![tipId].viewed = TRUE]
    ELSE tips

(* updateDoc rejects with not-found when the document does not exist; the  *)
(* catch block rethrows 'Failed to mark tip as viewed.'                    *)
markTipAsViewed(tipId) ==
    /\ tipId \in 1..(nextTipId - 1)
    /\ tips' = UpdateViewed(tipId)
    /\ last' = [ op |-> "markTipAsViewed", tipId |-> tipId,
                 status |-> IF tipId \in DOMAIN tips THEN "ok" ELSE "error",
                 wasViewed |-> tipId \in DOMAIN tips /\ tips[tipId].viewed ]
    /\ UNCHANGED <<extraVars, accountVars, signals, friendRequests, users, friendships, blobs, deleteEvents, handled,
                   nextTipId, uploads, now>>

(* if (friendIds.length === 0) throw; else Promise.all of one addDoc per   *)
(* friend id.  failed holds the recipients whose addDoc rejects; the       *)
(* documents of the others are written.                                    *)
createSignalTip(senderId, friendIds, mediaUrl, clock, dst, failed) ==
    IF Len(friendIds) = 0
    THEN [ status |-> "error", docs |-> <<>> ]
    ELSE [ status |-> IF failed \cap Range(friendIds) = {}
                      THEN "ok" ELSE "error",
           docs   |-> SelectSeq(
                        SignalDocs(senderId, friendIds, mediaUrl, clock, dst),
                        LAMBDA d : d.recipientId \notin failed) ]

(* selectedFriends.map(createTip) under Promise.all *)
createTips(senderId, selectedFriends, mediaUrl, clock, dst, failed) ==
    [ status |-> IF failed \cap Range(selectedFriends) = {}
                 THEN "ok" ELSE "error",
      docs   |-> SelectSeq(
                   [i \in DOMAIN selectedFriends |->
                      createTip(senderId, selectedFriends[i], mediaUrl,
                                clock, dst)],
                   LAMBDA d : d.recipientId \notin failed) ]

-----------------------------------------------------------------------------
(* app/modal.tsx: the send screen *)

(* uploadTipMedia: the object is stored under the path and its download    *)
(* URL returned.  Date.now() is in milliseconds: successive uploads get    *)
(* different stamps.                                                       *)
uploadTipMedia(type, userId) == TipFilePath(userId, uploads + 1, type)

(* The writes of handleSend once the upload has returned mediaUrl. *)
SendTips(userId, sendingMode, recipients, mediaUrl, clock, dst, failed) ==
    IF sendingMode = "friends"
    THEN createTips(userId, recipients, mediaUrl, clock, dst, failed)
    ELSE createSignalTip(userId, recipients, mediaUrl, clock, dst, failed)

(* Characters of the ticker field: letters of both cases, a digit and a    *)
(* punctuation mark                                                        *)
TickerChars == {"a", "b", "A", "B", "1", "-"}

UpperCase(ch) == IF ch = "a" THEN "A" ELSE IF ch = "b" THEN "B" ELSE ch

toUpperCase(str) == [i \in DOMAIN str |-> UpperCase(str[i])]

(* text.replace(/[^A-Za-z]/g, '') *)
RemoveNonLetters(text) ==
    SelectSeq(text, LAMBDA ch : ch \in {"a", "b", "A", "B"})

(* formattedTicker.slice(0, 5) *)
Slice05(str) == IF Len(str) <= MaxTickerLength
                THEN str ELSE SubSeq(str, 1, MaxTickerLength)

(* handleTickerChange: onChangeText of the ticker field *)
handleTickerChange(text) ==
    /\ ticker' = Slice05(toUpperCase(RemoveNonLetters(text)))
    /\ typed' = text
    /\ last' = [ op |-> "handleTickerChange", text |-> text ]
    /\ UNCHANGED <<users, accountVars, friendRequests, signals, friendships,
                   tips, blobs, deleteEvents, handled, nextTipId, uploads, now,
                   friendEvents, notifications, groupVars, hookVars>>

(* handleSend, with the number of documents and uploads the exploration    *)
(* allows as parameters                                                    *)
handleSendWithin(userId, type, sendingMode, selected, maxTips, maxUploads) ==
    LET friends    == subscribeToFriends(userId)
        recipients == IF sendingMode = "friends"
                      THEN SortUids(selected) ELSE friends
        filePath   == uploadTipMedia(type, userId)
        mediaUrl   == getDownloadURL(filePath)
    IN
    /\ userId \in DOMAIN users
    /\ userId \in DOMAIN auth
    /\ selected \subseteq Range(friends)
    /\ IF \/ sendingMode = "friends" /\ selected = {}
          \/ sendingMode = "signal" /\ Len(friends) = 0
       THEN \* Alert, return
            /\ last' = [ op |-> "handleSend", userId |-> userId,
                          typed |-> typed,
                         sendingMode |-> sendingMode, status |-> "alert" ]
            /\ UNCHANGED <<tips, blobs, nextTipId, uploads, ticker, typed>>
       ELSE \/ \* uploadTipMedia throws
               /\ last' = [ op |-> "handleSend", userId |-> userId,
                          typed |-> typed,
                            sendingMode |-> sendingMode, status |-> "error",
                            friendIds |-> recipients, created |-> {},
                            mediaUrl |-> <<>> ]
               /\ UNCHANGED <<tips, blobs, nextTipId, uploads, ticker, typed>>
            \/ \* the upload succeeds; addDoc fails for the recipients in failed
               /\ uploads < maxUploads
               /\ \E clock \in ClientClocks, dst \in DstShifts,
                     failed \in SUBSET Range(recipients) :
                    LET sent == SendTips(userId, sendingMode, recipients,
                                         mediaUrl, clock, dst, failed)
                    IN  /\ nextTipId + Len(sent.docs) - 1 <= maxTips
                        /\ tips' = AddDocs(tips, nextTipId, sent.docs)
                        /\ nextTipId' = nextTipId + Len(sent.docs)
                        /\ last' = [ op |-> "handleSend", userId |-> userId,
                          typed |-> typed,
                                     sendingMode |-> sendingMode,
                                     status |-> sent.status,
                                     friendIds |-> recipients,
                                     created |-> { nextTipId + i - 1 :
                                                     i \in DOMAIN sent.docs },
                                     mediaUrl |-> mediaUrl ]
                        \* resetMedia(), navigation.goBack(): the screen
                        \* and its form state go away after a full success
                        /\ IF sent.status = "ok"
                           THEN ticker' = <<>> /\ typed' = <<>>
                           ELSE UNCHANGED <<ticker, typed>>
               /\ uploads' = uploads + 1
               /\ blobs' = blobs \cup {filePath}
    /\ UNCHANGED <<accountVars, signals, friendRequests, users, friendships,
                   deleteEvents, handled, now, friendEvents, notifications,
                   groupVars, hookVars>>

handleSend(userId, type, sendingMode, selected) ==
    handleSendWithin(userId, type, sendingMode, selected, MaxTips, MaxUploads)

-----------------------------------------------------------------------------
(* Deletion of a tip document and the onTipDelete trigger *)

(* A tips document is deleted (batch.delete of deleteQueryBatch); Firestore *)
(* raises the onDelete event with the deleted document's data.              *)
DeleteTip(tipId) ==
    /\ tipId \in DOMAIN tips
    /\ tips' = DeleteDoc(tips, tipId)
    /\ deleteEvents' = deleteEvents \cup {[ tipId |-> tipId, data |-> tips[tipId] ]}
    /\ last' = [ op |-> "deleteTip", tipId |-> tipId ]
    /\ UNCHANGED <<extraVars, accountVars, signals, friendRequests, users, friendships, blobs, handled, nextTipId, uploads, now>>

(* bucket.file(filePath).delete(): "deleted" removes the object; "failed"  *)
(* is a rejected call (the object was already gone, or the storage call    *)
(* itself failed), which leaves the bucket as it is.                       *)
FileDelete(filePath, outcome) ==
    IF filePath \in blobs /\ outcome = "deleted"
    THEN [ blobs |-> blobs \ {filePath}, threw |-> FALSE ]
    ELSE [ blobs |-> blobs, threw |-> TRUE ]

onTipDelete(event, outcome) ==
    LET tipData  == event.data
        filePath == ParseFilePath(tipData.mediaUrl)
        deletion == FileDelete(filePath, outcome)
        log      == IF tipData.mediaUrl = <<>> THEN "warn: no media URL"
                    ELSE IF filePath = <<>> THEN "error: could not parse"
                    ELSE IF deletion.threw THEN "error: cleaning up"
                    ELSE "info: cleaned up"
    IN
    /\ deployed = "src/index.ts"
    /\ event \in deleteEvents
    /\ blobs' = IF tipData.mediaUrl = <<>> \/ filePath = <<>>
                THEN blobs ELSE deletion.blobs
    /\ deleteEvents' = deleteEvents \ {event}
    /\ handled' = handled \cup {[ tipId |-> event.tipId,
                                  mediaUrl |-> tipData.mediaUrl,
                                  event |-> event,
                                  log |-> log ]}
    /\ last' = [ op |-> "onTipDelete", tipId |-> event.tipId, log |-> log,
                 filePath |-> filePath, before |-> blobs ]
    /\ UNCHANGED <<extraVars, accountVars, signals, friendRequests, users, friendships, tips, nextTipId, uploads, now>>

(* Firestore triggers are delivered at least once: the event of an         *)
(* invocation that has returned may be delivered again.                    *)
RedeliverTipDelete(event) ==
    /\ deployed = "src/index.ts"
    /\ event \notin deleteEvents
    /\ \E h \in handled : h.event = event
    /\ Cardinality({ h \in handled : h.event = event }) < MaxDeliveries
    /\ deleteEvents' = deleteEvents \cup {event}
    /\ last' = [ op |-> "redeliver", tipId |-> event.tipId ]
    /\ UNCHANGED <<extraVars, accountVars, signals, friendRequests, users,
                   friendships, tips, blobs, handled, nextTipId, uploads, now>>

DeleteOutcomes == {"deleted", "failed"}

-----------------------------------------------------------------------------
(* useAuth: accounts, profiles and username reservations *)

MaxUsernameLength == 24

(* A local part one character longer than signUp accepts. *)
LongLocalPart == [i \in 1..(MaxUsernameLength + 1) |-> "z"]

(* Emails are the characters of the local part, "@" and the domain. *)
Emails ==
    { <<"a", "@", "x">>, <<"A", "@", "y">>, <<"b", "@", "x">>,
      LongLocalPart \o <<"@", "x">> }

LowerCase(ch) == IF ch = "A" THEN "a" ELSE IF ch = "B" THEN "b" ELSE ch

toLowerCase(str) == [i \in DOMAIN str |-> LowerCase(str[i])]

(* email.split('@')[0].toLowerCase() *)
UsernameOf(email) == toLowerCase(Split(email, "@")[1])

newUserProfile(uid, email) ==
    [ uid |-> uid, username |-> UsernameOf(email), email |-> email,
      friends |-> <<>> ]

(* The accounts of the states in which every user id has signed up. *)
SeedEmail(uid) == uid \o <<"@", "x">>

SeedUsers == [uid \in Uids |-> newUserProfile(uid, SeedEmail(uid))]

SeedUsernames ==
    [name \in { UsernameOf(SeedEmail(uid)) : uid \in Uids } |->
        [ uid |-> CHOOSE uid \in Uids : UsernameOf(SeedEmail(uid)) = name ]]

SeedAuth == [uid \in Uids |-> SeedEmail(uid)]

(* createUserWithEmailAndPassword rejects an address that has an account. *)
emailInUse(email) ==
    \E uid \in DOMAIN auth : toLowerCase(auth[uid]) = toLowerCase(email)

DisplayNames == { <<>>, <<"A", "l">> }

(* signUp, up to the account: the validation of displayName, then          *)
(* createUserWithEmailAndPassword, which gives the account a new uid.      *)
signUp(email, displayName) ==
    /\ IF displayName = <<>> \/ emailInUse(email)
       THEN /\ last' = [ op |-> "signUp", email |-> email, uid |-> <<>>,
                         status |-> IF displayName = <<>> THEN "invalid"
                                    ELSE "email-already-in-use" ]
            /\ UNCHANGED <<auth, signingUp>>
       ELSE \E uid \in Uids \ (DOMAIN auth \cup DOMAIN cleanup) :
            /\ auth' = SetDoc(auth, uid, email)
            /\ signingUp' = SetDoc(signingUp, uid, email)
            /\ last' = [ op |-> "signUp", email |-> email, uid |-> uid,
                         status |-> "account" ]
    /\ UNCHANGED <<extraVars, usernames, cleanup, deployed, friendRequests, signals,
                   users, friendships, tips, blobs, deleteEvents, handled,
                   nextTipId, uploads, now>>

(* The mutation of a transaction that does not look at the reservation. *)
NeverTaken(username) == FALSE

(* transaction.get(usernameDocRef).exists() *)
usernameTaken(username) == username \in DOMAIN usernames

(* The mutation of a transaction body that writes the profile alone. *)
ProfileWriteOnly(uid, email) ==
    [ users     |-> SetDoc(users, uid, newUserProfile(uid, email)),
      usernames |-> usernames ]

(* transaction.set(userDocRef, ...); transaction.set(usernameDocRef, ...) *)
TransactionWrites(uid, email) ==
    [ users     |-> SetDoc(users, uid, newUserProfile(uid, email)),
      usernames |-> SetDoc(usernames, UsernameOf(email), [ uid |-> uid ]) ]

(* signUp, from the account on: the length check and runTransaction,      *)
(* which commits both documents or, when it throws or cannot commit,      *)
(* neither.  The account stays in either case.                            *)
signUpTransaction(uid, committed) ==
    LET email    == signingUp[uid]
        username == UsernameOf(email)
        status   == IF Len(username) > MaxUsernameLength THEN "too-long"
                    ELSE IF usernameTaken(username) THEN "taken"
                    ELSE IF ~committed THEN "failed"
                    ELSE "ok"
        writes   == TransactionWrites(uid, email)
    IN
    /\ uid \in DOMAIN signingUp
    /\ users' = IF status = "ok" THEN writes.users ELSE users
    /\ usernames' = IF status = "ok" THEN writes.usernames ELSE usernames
    /\ signingUp' = DeleteDoc(signingUp, uid)
    /\ last' = [ op |-> "signUpTransaction", email |-> email, uid |-> uid,
                 username |-> username, status |-> status ]
    /\ UNCHANGED <<extraVars, auth, cleanup, deployed, friendRequests, signals,
                   friendships, tips, blobs, deleteEvents, handled,
                   nextTipId, uploads, now>>

Builds == {"src/index.ts", "lib/index.js"}

-----------------------------------------------------------------------------
(* storage.rules and the uploads of the other media categories *)

Categories == {"tips", "signals", "snaps", "stories"}

(* `${category}/${userId}/${Date.now()}` *)
UploadPath(category, userId, timestamp) ==
    <<category, "/">> \o userId \o <<"/", ToString(timestamp)>>

(* bucket.deleteFiles({ prefix }): the objects whose name starts with it *)
HasPrefix(path, prefix) ==
    /\ Len(path) >= Len(prefix)
    /\ SubSeq(path, 1, Len(prefix)) = prefix

(* The mutation of rules that let a signed-in user write anywhere. *)
AllowAnyWrite(path, uid) == uid \in DOMAIN auth

(* allow write: only below tips/{userId}/ and signals/{userId}/, and only *)
(* by that user; every other write is denied.                             *)
AllowWrite(path, uid) ==
    /\ uid \in DOMAIN auth
    /\ \E category \in {"tips", "signals"} :
         HasPrefix(path, <<category, "/">> \o uid \o <<"/">>)

(* createSignal, sendSnap, createStory: the upload, then the document.    *)
(* sendSnap reads the sender's profile first.                             *)
UploadAndAddDoc(category, userId) ==
    LET path == UploadPath(category, userId, uploads + 1)
        profileMissing == category = "snaps" /\ userId \notin DOMAIN users
        stored == ~profileMissing /\ AllowWrite(path, userId)
    IN
    /\ userId \in DOMAIN auth
    /\ category \in Categories \ {"tips"}
    /\ uploads < MaxUploads
    /\ IF stored
       THEN /\ blobs' = blobs \cup {path}
            /\ signals' = signals \cup
                 {[ collection |-> category, userId |-> userId,
                    mediaUrl |-> getDownloadURL(path), createdAt |-> now ]}
            /\ uploads' = uploads + 1
       ELSE UNCHANGED <<blobs, signals, uploads>>
    /\ last' = [ op |-> "upload", category |-> category, userId |-> userId,
                 status |-> IF stored THEN "ok" ELSE "error" ]
    /\ UNCHANGED <<extraVars, accountVars, friendRequests, users, friendships, tips,
                   deleteEvents, handled, nextTipId, now>>

-----------------------------------------------------------------------------
(* Account deletion and the onUserDelete trigger *)

(* deleteAccount: reauthenticate, then deleteUser.  Firebase Authentication *)
(* raises the user onDelete event once the account is gone.                *)
deleteAccount(uid, passwordOk) ==
    /\ uid \in DOMAIN auth
    /\ uid \notin DOMAIN signingUp
    /\ IF passwordOk
       THEN /\ auth' = DeleteDoc(auth, uid)
            /\ cleanup' = SetDoc(cleanup, uid, "pending")
       ELSE UNCHANGED <<auth, cleanup>>
    /\ last' = [ op |-> "deleteAccount", uid |-> uid,
                 status |-> IF passwordOk THEN "ok" ELSE "error" ]
    /\ UNCHANGED <<extraVars, usernames, signingUp, deployed, friendRequests, signals,
                   users, friendships, tips, blobs, deleteEvents, handled,
                   nextTipId, uploads, now>>

(* The promises each build of onUserDelete starts before it awaits them.  *)
(* lib/index.js also edits the friends arrays of profiles (always empty)   *)
(* and the signals whose userId is the uid (the documents are written with *)
(* postedBy): neither changes the state kept here.  Its cleanGroups task   *)
(* runs beside the others and is modelled by its own two steps below.      *)
CleanupSteps(build) ==
    IF build = "src/index.ts"
    THEN {"users", "usernames", "tipsFiles", "signalsFiles"}
    ELSE {"users", "friendships", "tips", "tipsFiles", "signalsFiles"}

(* One step may reject; the others still take effect. *)
FailureSets(build) == {{}} \cup { {step} : step \in CleanupSteps(build) }

UserFilesPrefix(category, uid) == <<category, "/">> \o uid

DeleteFiles(files, prefix) == { path \in files : ~HasPrefix(path, prefix) }

(* deleteQueryBatch over the tips the user sent and the tips it received *)
TipsOf(uid) ==
    { id \in DOMAIN tips :
        tips[id].senderId = uid \/ tips[id].recipientId = uid }

FriendshipsOf(uid) ==
    { id \in DOMAIN friendships :
        \E i \in 1..2 : friendships[id].members[i] = uid }

onUserDelete(uid, failed) ==
    LET runs(step) == step \in CleanupSteps(deployed) \ failed
        username == IF uid \in DOMAIN users THEN users[uid].username ELSE <<>>
        afterTips == IF runs("tipsFiles")
                     THEN DeleteFiles(blobs, UserFilesPrefix("tips", uid))
                     ELSE blobs
    IN
    /\ uid \in DOMAIN cleanup
    /\ cleanup[uid] \in {"pending", "partial"}
    /\ failed \in FailureSets(deployed)
    /\ users' = IF runs("users") THEN DeleteDoc(users, uid) ELSE users
    /\ usernames' = IF runs("usernames") /\ username # <<>>
                    THEN DeleteDoc(usernames, username) ELSE usernames
    /\ friendships' =
         IF runs("friendships")
         THEN [id \in DOMAIN friendships \ FriendshipsOf(uid) |->
                  friendships[id]]
         ELSE friendships
    /\ tips' = IF runs("tips")
               THEN [id \in DOMAIN tips \ TipsOf(uid) |-> tips[id]]
               ELSE tips
    /\ deleteEvents' =
         IF runs("tips")
         THEN deleteEvents \cup
                { [ tipId |-> id, data |-> tips[id] ] : id \in TipsOf(uid) }
         ELSE deleteEvents
    /\ blobs' = IF runs("signalsFiles")
                THEN DeleteFiles(afterTips, UserFilesPrefix("signals", uid))
                ELSE afterTips
    /\ cleanup' = [cleanup EXCEPT
                     ![uid] = IF failed = {} THEN "done" ELSE "partial"]
    /\ last' = [ op |-> "onUserDelete", uid |-> uid,
                 status |-> IF failed = {} THEN "done" ELSE "partial",
                 rerun |-> cleanup[uid] = "partial",
                 username |-> username,
                 files |-> { path \in blobs : \E c \in Categories :
                               HasPrefix(path, UserFilesPrefix(c, uid)
                                                  \o <<"/">>) } ]
    /\ UNCHANGED <<extraVars, auth, signingUp, deployed, friendRequests, signals,
                   handled, nextTipId, uploads, now>>

-----------------------------------------------------------------------------
Project(build) ==
    /\ ticker = <<>>
    /\ typed = <<>>
    /\ friendEvents = EmptyCollection
    /\ notifications = <<>>
    /\ groups = EmptyCollection
    /\ nextGroupId = 1
    /\ groupJobs = EmptyCollection
    /\ globalAuthUnsubscribe = NoListener
    /\ authListeners = {}
    /\ mountedHooks = EmptyCollection
    /\ listenerCount = 0
    /\ users = SeedUsers
    /\ signals = {}
    /\ usernames = SeedUsernames
    /\ auth = SeedAuth
    /\ signingUp = EmptyCollection
    /\ cleanup = EmptyCollection
    /\ deployed = build
    /\ friendRequests = [u \in Uids |-> {}]
    /\ friendships = EmptyCollection
    /\ tips = EmptyCollection
    /\ blobs = {}
    /\ deleteEvents = {}
    /\ handled = {}
    /\ nextTipId = 1
    /\ uploads = 0
    /\ now = 0
    /\ last = [op |-> "init"]

Init == Project("src/index.ts")

NextGraph ==
    \/ \E f \in Uids, t \in Uids : handleAddFriend(f, t)
    \/ \E u \in Uids : setFriendRequests(u)
    \/ \E u \in Uids : \E id \in friendRequests[u] : acceptFriendRequest(u, id)
    \/ \E u \in Uids : \E id \in friendRequests[u] : declineFriendRequest(u, id)

(* The friendship calls do not depend on the functions: the graph is       *)
(* explored with the build that registers nothing on friendships, so that  *)
(* no trigger events are kept.                                             *)
InitGraph == Project("lib/index.js")

SpecGraph == InitGraph /\ [][NextGraph]_vars

(* The content lifecycle runs over a friend graph that the friendship      *)
(* calls above have built: every pair of P accepted at time 0.             *)
AllPairs == { SortPair(u, v) : u \in Uids, v \in Uids } \ { <<u, u>> : u \in Uids }

AcceptedGraph(P) ==
    [ id \in { Join(p, "_") : p \in P } |->
        LET p == CHOOSE q \in P : Join(q, "_") = id
        IN  [ members |-> p, requestedBy |-> p[1],
              status |-> "accepted", createdAt |-> 0 ] ]

FriendGraphs ==
    { { <<(<<"a">>), (<<"a", "b">>)>>, <<(<<"a">>), (<<"b">>)>> },
      { <<(<<"a">>), (<<"b">>)>> } }

InitContent ==
    /\ ticker = <<>>
    /\ typed = <<>>
    /\ friendEvents = EmptyCollection
    /\ notifications = <<>>
    /\ groups = EmptyCollection
    /\ nextGroupId = 1
    /\ groupJobs = EmptyCollection
    /\ globalAuthUnsubscribe = NoListener
    /\ authListeners = {}
    /\ mountedHooks = EmptyCollection
    /\ listenerCount = 0
    /\ users = SeedUsers
    /\ signals = {}
    /\ usernames = SeedUsernames
    /\ auth = SeedAuth
    /\ signingUp = EmptyCollection
    /\ cleanup = EmptyCollection
    /\ deployed = "src/index.ts"
    /\ friendRequests = [u \in Uids |-> {}]
    /\ friendships \in { AcceptedGraph(P) : P \in FriendGraphs }
    /\ tips = EmptyCollection
    /\ blobs = {}
    /\ deleteEvents = {}
    /\ handled = {}
    /\ nextTipId = 1
    /\ uploads = 0
    /\ now = 0
    /\ last = [op |-> "init"]

NextContent ==
    \/ \E u \in Uids, type \in CapturedTypes, mode \in SendingModes :
         \E selected \in SUBSET Range(subscribeToFriends(u)) :
            handleSend(u, type, mode, selected)
    \/ \E u \in Uids : GetTipsForUser(u)
    \/ \E id \in 1..MaxTips : markTipAsViewed(id)
    \/ \E id \in 1..MaxTips : DeleteTip(id)
    \/ \E e \in deleteEvents, outcome \in DeleteOutcomes : onTipDelete(e, outcome)
    \/ Tick

SpecContent == InitContent /\ [][NextContent]_vars

-----------------------------------------------------------------------------
(* hooks/useAuth.ts: the auth-state listener *)

Components == {"AuthGuard", "ModalScreen", "FriendsScreen"}

(* init(): the listener of globalAuthUnsubscribe, if any, is unsubscribed; *)
(* onAuthStateChanged subscribes a new one, whose unsubscribe function is  *)
(* kept in globalAuthUnsubscribe and returned.                             *)
init ==
    [ listener  |-> listenerCount + 1,
      listeners |-> (authListeners \ {globalAuthUnsubscribe})
                      \cup {listenerCount + 1} ]

(* The effect of useAuth on mount: init() is called and its result kept    *)
(* for the cleanup.                                                        *)
Mount(component) ==
    /\ component \notin DOMAIN mountedHooks
    /\ listenerCount < MaxListeners
    /\ authListeners' = init.listeners
    /\ globalAuthUnsubscribe' = init.listener
    /\ listenerCount' = listenerCount + 1
    /\ mountedHooks' = SetDoc(mountedHooks, component, init.listener)
    /\ last' = [ op |-> "mount", component |-> component ]
    /\ UNCHANGED <<ticker, typed, friendEvents, notifications, groupVars,
                   users, accountVars, friendRequests, signals, friendships,
                   tips, blobs, deleteEvents, handled, nextTipId, uploads, now>>

(* The cleanup of the effect on unmount: () => unsubscribe().  An          *)
(* unsubscribe function called again does nothing.                         *)
Unmount(component) ==
    /\ component \in DOMAIN mountedHooks
    /\ authListeners' = authListeners \ {mountedHooks[component]}
    /\ mountedHooks' = DeleteDoc(mountedHooks, component)
    /\ last' = [ op |-> "unmount", component |-> component ]
    /\ UNCHANGED <<ticker, typed, friendEvents, notifications, groupVars,
                   globalAuthUnsubscribe, listenerCount,
                   users, accountVars, friendRequests, signals, friendships,
                   tips, blobs, deleteEvents, handled, nextTipId, uploads, now>>

-----------------------------------------------------------------------------
(* Groups *)

GroupNames == { <<>>, <<"g">> }

(* createGroup: addDoc of the group, refused for an empty name or fewer    *)
(* than two member ids                                                     *)
createGroup(name, memberIds, createdBy) ==
    /\ createdBy \in DOMAIN auth
    /\ IF name = <<>> \/ Len(memberIds) < MinGroupMembers
       THEN /\ last' = [ op |-> "createGroup", status |-> "error" ]
            /\ UNCHANGED <<groups, nextGroupId>>
       ELSE /\ nextGroupId <= MaxGroups
            /\ groups' = SetDoc(groups, nextGroupId,
                                [ name |-> name, members |-> memberIds,
                                  createdBy |-> createdBy, createdAt |-> now ])
            /\ nextGroupId' = nextGroupId + 1
            /\ last' = [ op |-> "createGroup", status |-> "ok",
                         id |-> nextGroupId ]
    /\ UNCHANGED <<hookVars, ticker, typed, friendEvents, notifications, groupJobs,
                   users, accountVars, friendRequests, signals, friendships,
                   tips, blobs, deleteEvents, handled, nextTipId, uploads, now>>

(* where('members', 'array-contains', uid).get() *)
GroupsOf(uid) ==
    { id \in DOMAIN groups : uid \in Range(groups[id].members) }

(* members.filter((m) => m !== uid) *)
WithoutMember(members, uid) == SelectSeq(members, LAMBDA m : m # uid)

(* cleanGroups of onUserDelete, up to the return of the query: the task    *)
(* holds the documents as they were read.                                  *)
cleanGroupsGet(uid) ==
    /\ deployed = "lib/index.js"
    /\ uid \in DOMAIN cleanup
    /\ uid \notin DOMAIN groupJobs
    /\ groupJobs' = SetDoc(groupJobs, uid,
                           [ state |-> IF GroupsOf(uid) = {}
                                       THEN "done" ELSE "read",
                             groupsSnap |-> [id \in GroupsOf(uid) |->
                                               groups[id]] ])
    /\ last' = [ op |-> "cleanGroupsGet", uid |-> uid ]
    /\ UNCHANGED <<hookVars, ticker, typed, friendEvents, notifications, groups,
                   nextGroupId, users, accountVars, friendRequests, signals,
                   friendships, tips, blobs, deleteEvents, handled, nextTipId,
                   uploads, now>>

(* The batch of cleanGroups over the documents read: a delete for a group  *)
(* whose filtered member list is empty, otherwise an update of members.    *)
(* The batch is atomic; an update of a document that is gone rejects it.   *)
BatchWrites(uid, groupsSnap) ==
    [ id \in DOMAIN groupsSnap |->
        LET updatedMembers == WithoutMember(groupsSnap[id].members, uid)
        IN  IF Len(updatedMembers) = 0
            THEN [ op |-> "delete", members |-> <<>> ]
            ELSE [ op |-> "update", members |-> updatedMembers ] ]

BatchCommit(writes) ==
    IF \E id \in DOMAIN writes :
          writes[id].op = "update" /\ id \notin DOMAIN groups
    THEN [ ok |-> FALSE, groups |-> groups ]
    ELSE [ ok |-> TRUE,
           groups |->
             [ id \in DOMAIN groups \
                        { x \in DOMAIN writes : writes[x].op = "delete" } |->
                 IF id \in DOMAIN writes
                 THEN [groups[id] EXCEPT !.members = writes[id].members]
                 ELSE groups[id] ] ]

cleanGroupsCommit(uid) ==
    LET committed == BatchCommit(BatchWrites(uid, groupJobs[uid].groupsSnap))
    IN
    /\ uid \in DOMAIN groupJobs
    /\ groupJobs[uid].state = "read"
    /\ groups' = committed.groups
    /\ groupJobs' = [groupJobs EXCEPT
                       ![uid].state = IF committed.ok THEN "done" ELSE "failed"]
    /\ last' = [ op |-> "cleanGroupsCommit", uid |-> uid,
                 status |-> IF committed.ok THEN "ok" ELSE "error" ]
    /\ UNCHANGED <<hookVars, ticker, typed, friendEvents, notifications, nextGroupId,
                   users, accountVars, friendRequests, signals, friendships,
                   tips, blobs, deleteEvents, handled, nextTipId, uploads, now>>

-----------------------------------------------------------------------------
(* Account deletion runs over accounts that have friends and content, on   *)
(* either build of the functions.                                          *)
InitAccount ==
    /\ ticker = <<>>
    /\ typed = <<>>
    /\ friendEvents = EmptyCollection
    /\ notifications = <<>>
    /\ groups = EmptyCollection
    /\ nextGroupId = 1
    /\ groupJobs = EmptyCollection
    /\ globalAuthUnsubscribe = NoListener
    /\ authListeners = {}
    /\ mountedHooks = EmptyCollection
    /\ listenerCount = 0
    /\ users = SeedUsers
    /\ signals = {}
    /\ usernames = SeedUsernames
    /\ auth = SeedAuth
    /\ signingUp = EmptyCollection
    /\ cleanup = EmptyCollection
    /\ deployed \in Builds
    /\ friendRequests = [u \in Uids |-> {}]
    /\ friendships \in { AcceptedGraph(P) : P \in FriendGraphs }
    /\ tips = EmptyCollection
    /\ blobs = {}
    /\ deleteEvents = {}
    /\ handled = {}
    /\ nextTipId = 1
    /\ uploads = 0
    /\ now = 0
    /\ last = [op |-> "init"]

NextAccount ==
    \/ \E u \in Uids, type \in CapturedTypes, mode \in SendingModes :
         \E selected \in SUBSET Range(subscribeToFriends(u)) :
            handleSend(u, type, mode, selected)
    \/ \E u \in Uids, category \in Categories \ {"tips"} :
         UploadAndAddDoc(category, u)
    \/ \E u \in Uids, passwordOk \in BOOLEAN : deleteAccount(u, passwordOk)
    \/ \E u \in Uids : \E failed \in FailureSets(deployed) :
         onUserDelete(u, failed)

SpecAccount == InitAccount /\ [][NextAccount]_vars

(* Sign-up starts from a project without accounts.  Deleted accounts are  *)
(* cleaned up by runs in which every step succeeds; runs with a failing   *)
(* step are followed in SpecAccount.                                      *)
InitSignUp ==
    /\ ticker = <<>>
    /\ typed = <<>>
    /\ friendEvents = EmptyCollection
    /\ notifications = <<>>
    /\ groups = EmptyCollection
    /\ nextGroupId = 1
    /\ groupJobs = EmptyCollection
    /\ globalAuthUnsubscribe = NoListener
    /\ authListeners = {}
    /\ mountedHooks = EmptyCollection
    /\ listenerCount = 0
    /\ users = EmptyCollection
    /\ signals = {}
    /\ usernames = EmptyCollection
    /\ auth = EmptyCollection
    /\ signingUp = EmptyCollection
    /\ cleanup = EmptyCollection
    /\ deployed \in Builds
    /\ friendRequests = [u \in Uids |-> {}]
    /\ friendships = EmptyCollection
    /\ tips = EmptyCollection
    /\ blobs = {}
    /\ deleteEvents = {}
    /\ handled = {}
    /\ nextTipId = 1
    /\ uploads = 0
    /\ now = 0
    /\ last = [op |-> "init"]

NextSignUp ==
    \/ \E email \in Emails, displayName \in DisplayNames :
         signUp(email, displayName)
    \/ \E u \in Uids, committed \in BOOLEAN : signUpTransaction(u, committed)
    \/ \E u \in Uids, passwordOk \in BOOLEAN : deleteAccount(u, passwordOk)
    \/ \E u \in Uids : onUserDelete(u, {})

SpecSignUp == InitSignUp /\ [][NextSignUp]_vars

(* The send screen with its ticker field: texts typed into the field, then *)
(* sends.                                                                  *)
TextsUpTo(n) ==
    UNION { [1..k -> TickerChars] : k \in 0..n }

TickerTexts ==
    TextsUpTo(MaxTextLen) \cup { <<"a", "-", "B", "1", "b">>,
                                 <<"a", "B", "a", "b", "A", "b">> }

InitTicker == InitContent

NextTicker ==
    \/ \E text \in TickerTexts : handleTickerChange(text)
    \/ \E u \in Uids, type \in CapturedTypes, mode \in SendingModes :
         \E selected \in SUBSET Range(subscribeToFriends(u)) :
            handleSend(u, type, mode, selected)

SpecTicker == InitTicker /\ [][NextTicker]_vars

(* Deletion of tips and the trigger, with repeated delivery of its events *)
InitTipDelete == InitContent

NextTipDelete ==
    \/ \E u \in Uids, type \in CapturedTypes, mode \in SendingModes :
         \E selected \in SUBSET Range(subscribeToFriends(u)) :
            handleSend(u, type, mode, selected)
    \/ \E id \in 1..MaxTips : DeleteTip(id)
    \/ \E e \in deleteEvents, outcome \in DeleteOutcomes : onTipDelete(e, outcome)
    \/ \E h \in handled : RedeliverTipDelete(h.event)

SpecTipDelete == InitTipDelete /\ [][NextTipDelete]_vars

(* Friend requests between two users with the notification functions       *)
(* deployed.                                                               *)
NotifyUids == { <<"a">>, <<"b">> }

InitNotify == Init

NextNotify ==
    \/ \E u \in NotifyUids : registerForPushNotifications(u)
    \/ /\ Cardinality(DOMAIN friendEvents) < MaxEvents
       /\ \/ \E u \in NotifyUids, v \in NotifyUids : handleAddFriend(u, v)
          \/ \E u \in NotifyUids : \E id \in friendRequests[u] :
                acceptFriendRequest(u, id)
    \/ \E u \in NotifyUids : setFriendRequests(u)
    \/ \E u \in NotifyUids : \E id \in friendRequests[u] :
          declineFriendRequest(u, id)
    \/ \E e \in DOMAIN friendEvents, outcome \in SendingOutcomes :
          onFriendRequestCreate(e, outcome)
    \/ \E e \in DOMAIN friendEvents, outcome \in SendingOutcomes :
          onFriendRequestAccept(e, outcome)

SpecNotify == InitNotify /\ [][NextNotify]_vars

(* Groups and the cleanGroups tasks of deleted accounts, which run         *)
(* concurrently: each is a query followed by a batch commit.               *)
MemberLists ==
    { <<>>, <<(<<"a">>)>>, <<(<<"a">>), (<<"b">>)>>,
      <<(<<"a">>), (<<"b">>), (<<"a", "b">>)>> }

InitGroups == Project("lib/index.js")

NextGroups ==
    \/ \E name \in GroupNames, memberIds \in MemberLists :
         \* the members are picked among the accounts that exist
         /\ Range(memberIds) \subseteq DOMAIN auth
         /\ createGroup(name, memberIds, <<"a">>)
    \/ \E u \in Uids, passwordOk \in BOOLEAN : deleteAccount(u, passwordOk)
    \/ \E u \in Uids : cleanGroupsGet(u)
    \/ \E u \in Uids : cleanGroupsCommit(u)

SpecGroups == InitGroups /\ [][NextGroups]_vars

(* A send that is repeated after the alert 'Could not send your tip.       *)
(* Please try again.': room for a second upload and its documents.         *)
InitRetry == InitContent

NextRetry ==
    \/ \E u \in Uids, type \in CapturedTypes, mode \in SendingModes :
         \E selected \in SUBSET Range(subscribeToFriends(u)) :
            handleSendWithin(u, type, mode, selected,
                             MaxRetryTips, MaxRetryUploads)
    \/ \E u \in Uids : GetTipsForUser(u)

SpecRetry == InitRetry /\ [][NextRetry]_vars

(* Components that call useAuth mount and unmount in any order. *)
InitHooks == Init

NextHooks ==
    \/ \E component \in Components : Mount(component)
    \/ \E component \in Components : Unmount(component)

SpecHooks == InitHooks /\ [][NextHooks]_vars

Next == NextGraph \/ NextHooks \/ NextRetry \/ NextGroups \/ NextNotify \/ NextTipDelete \/ NextTicker \/ NextContent \/ NextAccount \/ NextSignUp

Spec == Init /\ [][Next]_vars

SpecContentFair ==
    /\ SpecContent
    /\ WF_vars(Tick)
    /\ WF_vars(\E e \in deleteEvents, outcome \in DeleteOutcomes :
                  onTipDelete(e, outcome))

-----------------------------------------------------------------------------
(* Properties *)

C2_DeletedTipBlobAbsent ==
    \A h \in handled : ~Resolves(h.mediaUrl)

AcceptedFriendsOf(userId) ==
    { uid \in Uids \ {userId} :
        \E id \in DOMAIN friendships :
            /\ friendships[id].status = "accepted"
            /\ { friendships[id].members[1], friendships[id].members[2] }
                 = {userId, uid} }

(* C3: a signal send that succeeds for a sender with N >= 1 friends has    *)
(* created exactly N tips, one for each friend as recipient, all unviewed  *)
(* and with the sender, the media URL and the expiry of the send.          *)
C3_SignalOneTipPerFriend ==
    (last.op = "handleSend" /\ last.sendingMode = "signal"
        /\ last.status = "ok") =>
        /\ Len(last.friendIds) >= 1
        /\ Range(last.friendIds) = AcceptedFriendsOf(last.userId)
        /\ Cardinality(last.created) = Cardinality(AcceptedFriendsOf(last.userId))
        /\ last.created \subseteq DOMAIN tips
        /\ \A f \in AcceptedFriendsOf(last.userId) :
             Cardinality({ id \in last.created : tips[id].recipientId = f }) = 1
        /\ \A id \in last.created :
             /\ tips[id].viewed = FALSE
             /\ tips[id].senderId = last.userId
             /\ tips[id].mediaUrl = last.mediaUrl
        /\ \A i, j \in last.created : tips[i].expiresAt = tips[j].expiresAt

C3_Witness ==
    /\ last.op = "handleSend"
    /\ last.sendingMode = "signal"
    /\ last.status = "ok"
    /\ Cardinality(AcceptedFriendsOf(last.userId)) = 2
    /\ Cardinality(last.created) = 2

(* C4: when one tip of a send is deleted, and when onTipDelete then runs   *)
(* for it, every other tip of the same send stays stored and unchanged and *)
(* its mediaUrl, if it resolved before, still resolves.                    *)
C4_DeletingOneLeavesTheOthers ==
    [][ \A id \in DOMAIN tips :
          /\ (\E d \in DOMAIN tips \ DOMAIN tips' :
                 d # id /\ tips[d].mediaUrl = tips[id].mediaUrl)
               => (id \in DOMAIN tips' /\ tips'[id] = tips[id])
          /\ (\E h \in handled' \ handled : h.mediaUrl = tips[id].mediaUrl)
               => /\ id \in DOMAIN tips'
                  /\ tips'[id] = tips[id]
                  /\ (ParseFilePath(tips[id].mediaUrl) \in blobs
                        => ParseFilePath(tips[id].mediaUrl) \in blobs')
      ]_vars

(* C5: a markTipAsViewed call on a stored tip succeeds and leaves it       *)
(* viewed, changing nothing when it already was viewed and nothing else in *)
(* any case; a call on a tip that is no longer stored fails and leaves the *)
(* collection as it was.                                                   *)
C5_MarkViewedIdempotent ==
    [][ last'.op = "markTipAsViewed" =>
          IF last'.tipId \in DOMAIN tips
          THEN /\ last'.status = "ok"
               /\ tips' = [tips EXCEPT ![last'.tipId].viewed = TRUE]
               /\ (tips[last'.tipId].viewed => tips' = tips)
          ELSE /\ last'.status = "error"
               /\ tips' = tips
      ]_vars

(* the second of two calls on the same stored tip *)
C5_Witness ==
    /\ last.op = "markTipAsViewed"
    /\ last.status = "ok"
    /\ last.wasViewed
    /\ tips[last.tipId].viewed

(* C6: a tip is created unviewed with expiresAt = createdAt + TTL, and no  *)
(* step changes the expiresAt of a stored tip.                             *)
C6_ExpiryIsCreationPlusTTL ==
    [][ \A id \in DOMAIN tips' :
          IF id \notin DOMAIN tips
          THEN /\ tips'[id].viewed = FALSE
               /\ tips'[id].expiresAt = tips'[id].createdAt + TTL
          ELSE tips'[id].expiresAt = tips[id].expiresAt
      ]_vars

(* C7: a stored tip whose expiresAt has passed is eventually no longer     *)
(* stored.                                                                 *)
C7_ExpiredTipEventuallyRemoved ==
    \A id \in 1..MaxTips :
        [](id \in DOMAIN tips /\ tips[id].expiresAt <= now
             => <>(id \notin DOMAIN tips))

(* C8: no two friendship documents have the same two members, and no       *)
(* friendship document has the same user as both members.                  *)
C8_OneRecordPerPair ==
    /\ \A i, j \in DOMAIN friendships :
         { friendships[i].members[1], friendships[i].members[2] }
           = { friendships[j].members[1], friendships[j].members[2] }
         => i = j
    /\ \A i \in DOMAIN friendships :
         friendships[i].members[1] # friendships[i].members[2]

(* a request that crossed a pending request of the other user *)
C8_Witness ==
    /\ last.op = "sendFriendRequest"
    /\ last.status = "ok"
    /\ last.prior = "pending"
    /\ last.priorBy = last.to
    /\ Cardinality({ id \in DOMAIN friendships :
         { friendships[id].members[1], friendships[id].members[2] }
           = {last.from, last.to} }) = 1

(* C9: a sendFriendRequest between two users whose friendship document     *)
(* exists fails and leaves the document as it was.                         *)
C9_SecondRequestFails ==
    [][ ( /\ last'.op = "sendFriendRequest"
          /\ last'.from # last'.to
          /\ createFriendshipId(last'.from, last'.to) \in DOMAIN friendships )
        => /\ last'.status = "error"
           /\ friendships' = friendships
      ]_vars

(* C10: the status of a stored friendship changes only from pending to     *)
(* accepted, and an accepted friendship keeps its requestedBy.             *)
C10_OnlyPendingToAccepted ==
    [][ \A id \in DOMAIN friendships \cap DOMAIN friendships' :
          /\ friendships'[id].status # friendships[id].status
               => /\ friendships[id].status = "pending"
                  /\ friendships'[id].status = "accepted"
          /\ friendships[id].status = "accepted"
               => friendships'[id].requestedBy = friendships[id].requestedBy
      ]_vars


(* C11: acceptFriendRequest on a stored pending request succeeds, sets    *)
(* its status to accepted and changes nothing else; on a request that is   *)
(* no longer stored it fails and creates nothing; on a stored request that *)
(* is not pending it fails and changes nothing.                            *)
C11_AcceptOnlyPending ==
    [][ last'.op = "acceptFriendRequest" =>
          IF last'.id \notin DOMAIN friendships
          THEN /\ last'.status = "error"
               /\ friendships' = friendships
          ELSE IF friendships[last'.id].status = "pending"
          THEN /\ last'.status = "ok"
               /\ friendships' =
                    [friendships EXCEPT ![last'.id].status = "accepted"]
          ELSE /\ last'.status = "error"
               /\ friendships' = friendships
      ]_vars

(* C12: a step that moves a stored friendship from pending to accepted is  *)
(* an acceptFriendRequest by the member that is not its requestedBy.       *)
C12_AcceptedByTheOtherParty ==
    [][ \A id \in DOMAIN friendships \cap DOMAIN friendships' :
          ( /\ friendships[id].status = "pending"
            /\ friendships'[id].status = "accepted" )
          => /\ last'.op = "acceptFriendRequest"
             /\ last'.id = id
             /\ last'.by # friendships[id].requestedBy
             /\ \E i \in 1..2 : friendships[id].members[i] = last'.by
      ]_vars

(* a pending request accepted by the user it was sent to *)
C12_Witness ==
    /\ last.op = "acceptFriendRequest"
    /\ last.status = "ok"
    /\ last.prior = "pending"
    /\ last.by # last.priorBy
    /\ \E i \in 1..2 : friendships[last.id].members[i] = last.by
    /\ friendships[last.id].status = "accepted"

(* C13: for every user, both the friends subscribeToFriends delivers and   *)
(* the friend ids of the profile that the chat screen reads are exactly    *)
(* the other members of the accepted friendships of that user.             *)
C13_FriendsAreAcceptedCounterparts ==
    \A u \in DOMAIN users :
        /\ Range(subscribeToFriends(u)) = AcceptedFriendsOf(u)
        /\ Range(users[u].friends) = AcceptedFriendsOf(u)


Namespace(category, uid) == UserFilesPrefix(category, uid) \o <<"/">>

(* an onUserDelete run that completed without error, the first for its uid *)
CleanupDone ==
    last.op = "onUserDelete" /\ last.status = "done" /\ ~last.rerun

(* C14: after an onUserDelete run for a user completes without error, no   *)
(* tip is stored whose sender or recipient is that user.                   *)
C14_NoTipsOfDeletedUser ==
    CleanupDone =>
        \A id \in DOMAIN tips :
            tips[id].senderId # last.uid /\ tips[id].recipientId # last.uid

(* C15: after an onUserDelete run for a user completes without error, no   *)
(* friendship is stored that has that user as a member.                    *)
C15_NoFriendshipsOfDeletedUser ==
    CleanupDone =>
        \A id \in DOMAIN friendships :
            \A i \in 1..2 : friendships[id].members[i] # last.uid

C17_ProfileAndUsernameRemoved ==
    CleanupDone =>
        /\ last.uid \notin DOMAIN users
        /\ \A name \in DOMAIN usernames : usernames[name].uid # last.uid

(* what a run of the deployed build with no failing step leaves behind *)
CleanAsAfterOneRun(uid) ==
    /\ uid \notin DOMAIN users
    /\ \A path \in blobs :
         /\ ~HasPrefix(path, UserFilesPrefix("tips", uid))
         /\ ~HasPrefix(path, UserFilesPrefix("signals", uid))
    /\ deployed = "src/index.ts" =>
         \A name \in DOMAIN usernames : usernames[name].uid # uid
    /\ deployed = "lib/index.js" =>
         /\ TipsOf(uid) = {}
         /\ FriendshipsOf(uid) = {}

(* C18: when a run of onUserDelete for a user had a failing step and the   *)
(* job is run again without failure, the state is what a single run        *)
(* without failure leaves: in particular the profile is gone and the       *)
(* username reservation is released.                                       *)
C18_CleanupRerunReachesSameEnd ==
    (last.op = "onUserDelete" /\ last.status = "done" /\ last.rerun)
        => CleanAsAfterOneRun(last.uid)


ReservationsOf(uid) == { name \in DOMAIN usernames : usernames[name].uid = uid }

(* C19: after every step of a signUp call, whatever its outcome, the users *)
(* document of the call's uid and a usernames document pointing to that    *)
(* uid are both stored or both not stored.                                 *)
C19_ProfileAndUsernameTogether ==
    [][ last'.op \in {"signUp", "signUpTransaction"} /\ last'.uid # <<>>
          => ( last'.uid \in DOMAIN users'
                 <=> \E name \in DOMAIN usernames' :
                        usernames'[name].uid = last'.uid )
      ]_vars

(* a sign-up that left an account without profile and reservation, beside *)
(* one that wrote both                                                     *)
C19_Witness ==
    /\ last.op = "signUpTransaction"
    /\ last.status = "taken"
    /\ last.uid \notin DOMAIN users
    /\ ReservationsOf(last.uid) = {}
    /\ \E other \in DOMAIN users : ReservationsOf(other) # {}

C21_TickerNormalizedOrRejected ==
    [][ (last'.op = "handleSend" /\ last'.typed # <<>>) =>
          LET letters == toUpperCase(RemoveNonLetters(last'.typed))
          IN  IF Len(letters) \in 1..MaxTickerLength
              THEN \A id \in DOMAIN tips' \ DOMAIN tips :
                      tips'[id].ticker = letters
              ELSE DOMAIN tips' = DOMAIN tips ]_vars

(* no tip is stored with an empty tag by a send made after a text without  *)
(* any letter was typed into the ticker field                              *)
C21_NoEmptyTagStored ==
    ~ (/\ last.op = "handleSend"
       /\ last.status = "ok"
       /\ last.typed = <<"1">>
       /\ \E id \in last.created : tips[id].ticker = <<>>)

(* C22: a broadcast by a sender who has no friends succeeds: it creates no *)
(* item and is not reported as an error.                                   *)
C22_EmptyBroadcastSucceeds ==
    [][ (/\ last'.op = "handleSend"
         /\ last'.sendingMode = "signal"
         /\ Len(subscribeToFriends(last'.userId)) = 0)
        => (last'.status = "ok" /\ tips' = tips) ]_vars

(* no broadcast of a sender without friends ends in the alert *)
C22_NoAlertOnEmptyBroadcast ==
    ~ (/\ last.op = "handleSend"
       /\ last.sendingMode = "signal"
       /\ last.status = "alert"
       /\ Len(subscribeToFriends(last.userId)) = 0)

(* C23: onTipDelete is idempotent: a run for an item whose blob is already *)
(* absent (the blob was removed by an earlier run, or the event is         *)
(* delivered a second time) completes as a success and leaves the blob     *)
(* store as the single run left it.                                        *)
C23_TipDeleteIdempotent ==
    [][ (/\ last'.op = "onTipDelete"
         /\ last'.filePath # <<>>
         /\ last'.filePath \notin blobs)
        => (last'.log = "info: cleaned up" /\ blobs' = blobs) ]_vars

(* no second delivery of a handled event ends in the error branch *)
C23_NoErrorOnSecondDelivery ==
    ~ (/\ last.op = "onTipDelete"
       /\ last.log = "error: cleaning up"
       /\ last.filePath \notin last.before
       /\ \E h \in handled : /\ h.tipId = last.tipId
                              /\ h.log = "info: cleaned up")

(* the push messages sent for an event *)
NotificationsFor(eventId) ==
    { i \in DOMAIN notifications : notifications[i].eventId = eventId }

(* a creation as pending, or a change from pending to accepted *)
IsTransition(event) ==
    \/ event.kind = "create" /\ event.after.status = "pending"
    \/ /\ event.kind = "update"
       /\ event.before.status = "pending"
       /\ event.after.status = "accepted"

(* C24: over any sequence of requests, accepts and declines, and with      *)
(* trigger events delivered at least once, a state transition of a         *)
(* Relationship (created as pending, pending to accepted) never gets more  *)
(* than its one notification.                                              *)
C24_OneNotificationPerTransition ==
    \A e \in DOMAIN friendEvents :
        IsTransition(friendEvents[e]) =>
            Cardinality(NotificationsFor(e)) <= 1

(* no creation of a request is notified twice to its recipient *)
C24_NoDuplicateRequestNotification ==
    ~ \E i, j \in DOMAIN notifications :
        /\ i < j
        /\ notifications[i] = notifications[j]
        /\ notifications[i].type = "friend_request"

(* the users whose cleanGroups task has completed *)
CleanedMembers ==
    { u \in DOMAIN groupJobs : groupJobs[u].state = "done" }

(* C25: every stored group has at least one member: the member list is not *)
(* empty, and a group whose members have all been deleted and cleaned up   *)
(* is itself deleted, also when the cleanups of two members overlap.       *)
C25_GroupsKeepAMember ==
    \A id \in DOMAIN groups :
        /\ Len(groups[id].members) >= 1
        /\ \E m \in Range(groups[id].members) : m \notin CleanedMembers

(* no group is left listing a single user whose cleanup has completed *)
C25_NoGroupOfOneCleanedMember ==
    ~ \E id \in DOMAIN groups :
        /\ Len(groups[id].members) = 1
        /\ groups[id].members[1] \in CleanedMembers

(* the documents of ids that user sent as a signal to friendId *)
SignalsTo(userId, friendId, ids, coll) ==
    { id \in ids \cap DOMAIN coll :
        /\ coll[id].senderId = userId
        /\ coll[id].recipientId = friendId
        /\ coll[id].isSignal }

(* C26: a broadcast is safe to retry as a whole: when the send failed      *)
(* after some of its per-friend writes had succeeded and is repeated to    *)
(* completion, each friend holds exactly one item of the broadcast.        *)
C26_RetriedBroadcastOneItemEach ==
    [][ (/\ last.op = "handleSend" /\ last.sendingMode = "signal"
         /\ last.status = "error" /\ last.created # {}
         /\ last'.op = "handleSend" /\ last'.sendingMode = "signal"
         /\ last'.status = "ok" /\ last'.userId = last.userId)
        => \A i \in DOMAIN last'.friendIds :
              Cardinality(SignalsTo(last'.userId, last'.friendIds[i],
                                    last.created \cup last'.created,
                                    tips')) = 1 ]_vars

(* no friend holds two items of a signal after the repeated send *)
C26_NoDuplicateAfterRetry ==
    ~ (/\ last.op = "handleSend" /\ last.sendingMode = "signal"
       /\ last.status = "ok"
       /\ \E i \in DOMAIN last.friendIds :
             Cardinality(SignalsTo(last.userId, last.friendIds[i],
                                   DOMAIN tips, tips)) = 2)

(* the objects of the bucket below a user's folder of some category *)
FilesOwnedBy(uid, files) ==
    { path \in files : \E c \in Categories : HasPrefix(path, Namespace(c, uid)) }

(* C27: an onUserDelete run for a user deletes no profile, no username     *)
(* reservation and no object of a different user, also of one whose id     *)
(* starts with the deleted user's id.                                      *)
C27_CleanupLeavesOthersAlone ==
    [][ last'.op = "onUserDelete" =>
          \A v \in Uids \ {last'.uid} :
              /\ v \in DOMAIN users => v \in DOMAIN users'
              /\ \A name \in DOMAIN usernames :
                    usernames[name].uid = v => name \in DOMAIN usernames'
              /\ FilesOwnedBy(v, blobs) \subseteq blobs' ]_vars

(* no run for a user removes an object from the folder of another user *)
C27_NoFileOfAnotherUserDeleted ==
    ~ (/\ last.op = "onUserDelete"
       /\ last.status = "done"
       /\ HasPrefix(<<"a", "b">>, last.uid)
       /\ last.uid # <<"a", "b">>
       /\ \E id \in DOMAIN tips :
             /\ tips[id].senderId = <<"a", "b">>
             /\ ~Resolves(tips[id].mediaUrl))

(* C28: when a send has finished, with success or with failure, the object *)
(* it uploaded is referenced by at least one stored tip: a record write    *)
(* that fails after the upload leaves no unreferenced object.              *)
C28_UploadedBlobIsReferenced ==
    [][ (last'.op = "handleSend" /\ blobs' # blobs) =>
          \A path \in blobs' \ blobs :
              \E id \in DOMAIN tips' :
                  ParseFilePath(tips'[id].mediaUrl) = path ]_vars

(* no failed send leaves its upload in the bucket without a tip *)
C28_NoOrphanAfterFailedSend ==
    ~ (/\ last.op = "handleSend"
       /\ last.status = "error"
       /\ last.mediaUrl # <<>>
       /\ Resolves(last.mediaUrl)
       /\ \A id \in DOMAIN tips : tips[id].mediaUrl # last.mediaUrl)

(* C29: when signUp has returned, with success or failure, the auth        *)
(* account it created exists only if the account's profile and username    *)
(* reservation are stored.                                                 *)
C29_NoAccountWithoutProfile ==
    [][ (last'.op = "signUpTransaction" /\ last'.uid \in DOMAIN auth')
          => /\ last'.uid \in DOMAIN users'
             /\ \E name \in DOMAIN usernames' :
                   usernames'[name].uid = last'.uid ]_vars

(* no sign-up refused for a taken username leaves its auth account behind *)
C29_NoAccountAfterTakenUsername ==
    ~ (/\ last.op = "signUpTransaction"
       /\ last.status = "taken"
       /\ last.uid \in DOMAIN auth
       /\ last.uid \notin DOMAIN users)

(* C30: whatever the order of mounts and unmounts of the components that   *)
(* call useAuth, exactly one auth-state listener is subscribed while a     *)
(* component is mounted, and none once all are unmounted.                  *)
C30_OneAuthListenerWhileMounted ==
    /\ DOMAIN mountedHooks # {} => Cardinality(authListeners) = 1
    /\ DOMAIN mountedHooks = {} => authListeners = {}

(* no component stays mounted while no listener is subscribed *)
C30_NoMountedWithoutListener ==
    ~ (/\ DOMAIN mountedHooks # {}
       /\ authListeners = {}
       /\ last.op = "unmount")

=============================================================================
